---- MODULE Spec2Model ----
(***************************************************************************)
(* Culture simulation (Axelrod-style dissemination of culture).            *)
(*                                                                         *)
(* The model follows the extended variant of the program: main (the tick   *)
(* loop of src/main.go, second file of the listing), createPopulation,     *)
(* diff, featureDistAvg, featureDistance, similarCount, traitDistance,     *)
(* extract, replace, getRGB/setRGB (src/sim.go) and findNeighboursIndex    *)
(* with its helpers (src/main.go), where the grid side WIDTH is the        *)
(* configured width.  Spec is main alone, SpecKeys is main with its key    *)
(* listener, SpecOriginal is the original variant of main (no tick budget) *)
(* with its key listener; SpecCodec, SpecNb and SpecFd call the pure       *)
(* functions on their own.                                                 *)
(*                                                                         *)
(* Real numbers are kept as integers on a fixed scale: coverage and the    *)
(* population sample p in hundredths, the exchange draw dp in 96ths (the   *)
(* threshold 1 - d/96 is a multiple of 1/96, so the 96th a draw falls in   *)
(* decides the comparison).                                                *)
(***************************************************************************)
EXTENDS Integers, Sequences, FiniteSets, TLC

(***************************************************************************)
(* Bounds of the model.                                                    *)
(***************************************************************************)
\* largest grid side of the simulation runs
MaxW == 3
\* largest number of interactions per tick
MaxN == 1
\* largest tick budget
MaxT == 2
\* the population draws repeat with this period (cell n draws what cell
\* n - PopPeriod drew), which keeps the number of initial grids small
PopPeriod == 2
\* at most this many draws of a run fall below the exchange probability
MaxExch == 2
\* largest grid side for which findNeighboursIndex is tabulated
MaxNbW == 6
\* largest number of key events waiting in the events channel
MaxKeys == 2
\* largest grid side of the runs in which keys are pressed
MaxKeyW == 2
\* grid side of the runs of the original variant (WIDTH, 36 in the program)
MaxOrigW == 2
\* most ticks the original variant starts while no Ctrl-Q is in the channel
MaxOrigTicks == 1
\* at most this many draws of a run of the original variant fall below the
\* exchange probability
MaxOrigExch == 1

(***************************************************************************)
(* Program constants.                                                      *)
(***************************************************************************)
\* coverage is printed as coverage*100 percent; the model keeps it in percent
CovScale == 100
\* probability := 1 - float64(d)/96.0
NORM == 96
\* i := rand.Intn(6)
FEATURES == 6
\* for i := 0; i < 5; i++ in diff and featureDistance
DIFFPOS == 5
\* rand.Intn(0xFFFFFF)
CODEMAX == \hFFFFFF
\* events := make(chan termbox.Event, 1000)
EVENTSCAP == 1000

\* MASKARRAY is an array of masks used to replace the traits (1-based here)
MASKARRAY == << \hFFFFF0, \hFFFF0F, \hFFF0FF, \hFF0FFF, \hF0FFFF, \h0FFFFF >>

(***************************************************************************)
(* Go's integer operators on non-negative ints.                            *)
(***************************************************************************)
\* n >> k
Shr(n, k) == n \div (2 ^ k)

\* n << k
Shl(n, k) == n * (2 ^ k)

RECURSIVE And(_, _)
\* a & b
And(a, b) ==
    IF a = 0 \/ b = 0 THEN 0
    ELSE (a % 2) * (b % 2) + 2 * And(a \div 2, b \div 2)

RECURSIVE Xor(_, _)
\* a ^ b
Xor(a, b) ==
    IF a = 0 THEN b
    ELSE IF b = 0 THEN a
    ELSE ((a + b) % 2) + 2 * Xor(a \div 2, b \div 2)

\* uint8(x)
Uint8(x) == x % 256

\* rand.Intn(n): the values the draw can take
Intn(n) == 0 .. (n - 1)

(***************************************************************************)
(* TraitCodec: src/sim.go                                                  *)
(***************************************************************************)
\* extract trait for 1 feature
extract(n, pos) == And(Shr(n, 4 * pos), \h00000F)

\* a replace that shifts the replacement into the wrong nibble
replace_shift(n, replacement, pos) ==
    LET i1 == And(n, MASKARRAY[pos + 1])
        mask2 == Shl(replacement, 4 * ((pos + 1) % FEATURES))
    IN  Xor(i1, mask2)

\* replace the trait in 1 feature
replace(n, replacement, pos) ==
    LET i1 == And(n, MASKARRAY[pos + 1])
        mask2 == Shl(replacement, 4 * pos)
    IN  Xor(i1, mask2)

\* find the distance of 2 numbers at position pos
traitDistance(n1, n2, pos) ==
    LET d == extract(n1, pos) - extract(n2, pos)
    IN  IF d < 0 THEN d * (-1) ELSE d

\* get the red (R) from the color integer i
getR(i) == Uint8(And(Shr(i, 16), \h0000FF))

\* get the green (G) from the color integer i
getG(i) == Uint8(And(Shr(i, 8), \h0000FF))

\* get the blue (B) from the color integer i
getB(i) == Uint8(And(i, \h0000FF))

\* color.RGBA{r, g, b, 255}.RGBA(): each 8-bit channel widened to 16 bits
RGBA16(v) == v + Shl(v, 8)

\* a getRGB that forgets to mask the 16-bit red channel down to 8 bits
getRGB_nomask(cell) ==
    Shl(RGBA16(cell.R), 16)
        + Shl(And(RGBA16(cell.G), \h00FF), 8)
        + And(RGBA16(cell.B), \h00FF)

\* get the color integer back from the cell in the form 0x1A2B3C
getRGB(cell) ==
    Shl(And(RGBA16(cell.R), \h00FF), 16)
        + Shl(And(RGBA16(cell.G), \h00FF), 8)
        + And(RGBA16(cell.B), \h00FF)

\* create a cell: the Color of a cell is all the simulation reads of it
createCell(clr) == [R |-> getR(clr), G |-> getG(clr), B |-> getB(clr)]

\* set the color using the color integer in the form 0x1A2B3C
setRGB(i) == [R |-> getR(i), G |-> getG(i), B |-> getB(i)]

\* The grid keeps, for each cell, the colour integer its Color reads back as:
\* the Color is built from the integer (createCell, setRGB) and read with
\* getRGB when it is stored.
stored(cell) == getRGB(cell)

(***************************************************************************)
(* NeighborhoodResolver: src/main.go, with WIDTH the side W of the grid    *)
(***************************************************************************)
topLeft(n, W) == n = 0
topRight(n, W) == n = W - 1
bottomLeft(n, W) == n = W * (W - 1)
bottomRight(n, W) == n = (W * W) - 1

top(n, W) == n < W
left(n, W) == n % W = 0
right(n, W) == n % W = W - 1
bottom(n, W) == n >= W * (W - 1)

c1(n, W) == n - W - 1
c2(n, W) == n - W
c3(n, W) == n - W + 1
c4(n, W) == n - 1
c5(n, W) == n + 1
c6(n, W) == n + W - 1
c7(n, W) == n + W
c8(n, W) == n + W + 1

\* a resolver that treats the right edge like the interior (wraps around)
findNeighboursIndex_wrap(n, W) ==
    CASE topLeft(n, W) -> << c5(n, W), c7(n, W), c8(n, W) >>
      [] topRight(n, W) -> << c4(n, W), c6(n, W), c7(n, W) >>
      [] bottomLeft(n, W) -> << c2(n, W), c3(n, W), c5(n, W) >>
      [] bottomRight(n, W) -> << c1(n, W), c2(n, W), c4(n, W) >>
      [] top(n, W) -> << c4(n, W), c5(n, W), c6(n, W), c7(n, W), c8(n, W) >>
      [] left(n, W) -> << c2(n, W), c3(n, W), c5(n, W), c7(n, W), c8(n, W) >>
      [] bottom(n, W) -> << c1(n, W), c2(n, W), c3(n, W), c4(n, W), c5(n, W) >>
      [] OTHER -> << c1(n, W), c2(n, W), c3(n, W), c4(n, W),
                     c5(n, W), c6(n, W), c7(n, W), c8(n, W) >>

\* Find the indices of the neighbouring cells
findNeighboursIndex(n, W) ==
    IF topLeft(n, W) THEN << c5(n, W), c7(n, W), c8(n, W) >>
    ELSE IF topRight(n, W) THEN << c4(n, W), c6(n, W), c7(n, W) >>
    ELSE IF bottomLeft(n, W) THEN << c2(n, W), c3(n, W), c5(n, W) >>
    ELSE IF bottomRight(n, W) THEN << c1(n, W), c2(n, W), c4(n, W) >>
    ELSE IF top(n, W) THEN << c4(n, W), c5(n, W), c6(n, W), c7(n, W), c8(n, W) >>
    ELSE IF left(n, W) THEN << c2(n, W), c3(n, W), c5(n, W), c7(n, W), c8(n, W) >>
    ELSE IF right(n, W) THEN << c1(n, W), c2(n, W), c4(n, W), c6(n, W), c7(n, W) >>
    ELSE IF bottom(n, W) THEN << c1(n, W), c2(n, W), c3(n, W), c4(n, W), c5(n, W) >>
    ELSE << c1(n, W), c2(n, W), c3(n, W), c4(n, W),
            c5(n, W), c6(n, W), c7(n, W), c8(n, W) >>

(***************************************************************************)
(* Metrics helpers: src/sim.go                                             *)
(***************************************************************************)
RECURSIVE SumTo(_, _)
\* the sum of f[0] .. f[n-1]
SumTo(f, n) == IF n = 0 THEN 0 ELSE f[n - 1] + SumTo(f, n - 1)

\* total distance between traits for all features, between 2 cultures
diffCodes(n1, n2) ==
    SumTo([i \in 0 .. DIFFPOS - 1 |-> traitDistance(n1, n2, i)], DIFFPOS)

\* distance between 2 features
featureDistance(n1, n2) ==
    LET features ==
            SumTo([i \in 0 .. DIFFPOS - 1 |->
                      IF extract(n1, i) = extract(n2, i) THEN 1 ELSE 0], DIFFPOS)
    IN  6 - features

RECURSIVE Digits(_)
Digits(n) ==
    IF n < 10 THEN << n >> ELSE Append(Digits(n \div 10), n % 10)

\* strconv.Itoa of a non-negative int: its decimal digits, as characters
Itoa(n) ==
    LET chars == << "0", "1", "2", "3", "4", "5", "6", "7", "8", "9" >>
        ds == Digits(n)
    IN  [j \in 1 .. Len(ds) |-> chars[ds[j] + 1]]

(***************************************************************************)
(* Inputs of the model: the values the random draws and the flags are      *)
(* taken from.                                                             *)
(***************************************************************************)
\* -c: percentage of the grid that is populated
CoverageSamples == {0, 50, 100}
\* p := rand.Float64(), in hundredths
PSamples == {0, 50, 99}
\* rand.Intn(0xFFFFFF) of createPopulation
CodeSamples == {\h000000, \h000002, \h100000, \h70000F}
\* dp := rand.Float64(), in 96ths
DpSamples == {80, 94}
\* rand.Intn(0xFFFFFF) of createPopulation, original variant
CodeSamplesOriginal == {\h000002, \h100000}
\* termbox.PollEvent(): the Ctrl-Q key, or any other event
KeySamples == {"CtrlQ", "other"}

(***************************************************************************)
(* State                                                                   *)
(***************************************************************************)
VARIABLES
    width,          \* *width
    coverage,       \* *coverage, in percent
    interactions,   \* *interactions
    numTicks,       \* *numTicks
    cells,          \* the simulation grid, row-major, 0-based: cells[a] is
                    \* cells[a].getRGB()
    fdistances,     \* average distance between features, per tick
    changes,        \* number of cultural changes, per tick
    uniques,        \* number of unique cultures, per tick
    endSim,         \* main: endSim
    events,         \* main: the events channel
    pc,             \* where main is
    popn,           \* createPopulation: n
    p,              \* createPopulation: p of the cell just created (-1: none)
    t,              \* main: t
    dist,           \* main: dist
    chg,            \* main: chg
    uniq,           \* main: uniq
    c,              \* main: c
    r,              \* main: r (-1: not in an interaction)
    neighbours,     \* main: neighbours
    k,              \* main: position of the range loop in neighbours
    dp,             \* main: dp of the pair just processed (-1: none)
    before,         \* the grid as it was when r was drawn (<<>>: none)
    exch,           \* number of exchanges of the run so far
    probe           \* a call of a pure function: its name, inputs and result

vars == << width, coverage, interactions, numTicks, cells, fdistances, changes,
           uniques, endSim, events, pc, popn, p, t, dist, chg, uniq, c, r,
           neighbours, k, dp, before, exch, probe >>

config == << width, coverage, interactions, numTicks >>
series == << fdistances, changes, uniques >>

NoProbe == [fn |-> "none", in |-> << >>, out |-> << >>]

\* make([]Cell, n): a Cell whose Color has not been set
ZeroCell == 0

\* the indices of the grid
Indices == 0 .. (width * width - 1)

\* cells[a].getRGB()
code(a) == cells[a]

\* total distance between traits for all features, between 2 cultures
diff(a1, a2) == diffCodes(code(a1), code(a2))

\* createPopulation, p <= *coverage: a cell is populated on a tie too
isPopulated_le(sample) == sample <= coverage

\* createPopulation: p < *coverage
isPopulated(sample) == sample < coverage

\* probability := 1 - float64(d)/96.0, in 96ths
probability(d) == NORM - d

\* dp <= probability: an exchange on a tie too
happens_le(draw, d) == draw <= probability(d)

\* cultural exchange happens: dp < probability
happens(draw, d) == draw < probability(d)

\* a range loop that does not skip the unpopulated neighbours
neighbourPopulated_any(neighbour) == TRUE

\* cells[neighbour].getRGB() != 0x0000
neighbourPopulated(neighbour) == code(neighbour) # \h0000

\* a test of the key event against the wrong key
isCtrlQ_wrongkey(ev) == ev = "CtrlC"

\* ev.Type == termbox.EventKey and ev.Key == termbox.KeyCtrlQ
isCtrlQ(ev) == ev = "CtrlQ"

\* an interaction loop that also stops once the stop request is seen
moreInteractions_stop == c < interactions /\ ~endSim

\* the test of the interaction loop: c < *interactions
moreInteractions == c < interactions

\* randomly select either trait to be replaced by the neighbour's: the new
\* code rp, from the draw dir of rand.Intn(1)
exchanged(rr, neighbour, i, dir) ==
    IF dir = 0
    THEN LET replacement == extract(code(rr), i)
         IN  replace(code(neighbour), replacement, i)
    ELSE LET replacement == extract(code(neighbour), i)
         IN  replace(code(rr), replacement, i)

(***************************************************************************)
(* Metrics: src/sim.go                                                     *)
(***************************************************************************)
\* every index findNeighboursIndex returns for a cell of the grid is a cell
NeighboursInGrid ==
    \A a \in Indices :
        \A j \in DOMAIN findNeighboursIndex(a, width) :
            findNeighboursIndex(a, width)[j] \in Indices

\* average feature distance for the whole grid (the indices are in the grid)
featureDistAvg ==
    LET ofCell(a) ==
            LET nb == findNeighboursIndex(a, width)
                f == [j \in 0 .. Len(nb) - 1 |->
                        IF code(nb[j + 1]) # 0
                        THEN featureDistance(code(a), code(nb[j + 1]))
                        ELSE 0]
            IN  SumTo(f, Len(nb))
        total == SumTo([a \in Indices |-> ofCell(a)], width * width)
    IN  ((total \div width) * coverage) \div CovScale

\* a count that leaves the unpopulated cells out
similarCount_populated == Cardinality({code(a) : a \in Indices} \ {0})

\* count unique colors
similarCount == Cardinality({code(a) : a \in Indices})

(***************************************************************************)
(* Initial state: the flags are parsed, createPopulation has allocated the *)
(* grid and is about to create the first cell.                             *)
(***************************************************************************)
Init ==
    /\ width \in 1 .. MaxW
    /\ coverage \in CoverageSamples
    /\ interactions \in 0 .. MaxN
    /\ numTicks \in 0 .. MaxT
    /\ cells = [a \in 0 .. (width * width - 1) |-> ZeroCell]
    /\ fdistances = << >>
    /\ changes = << >>
    /\ uniques = << >>
    /\ endSim = FALSE
    /\ events = << >>
    /\ pc = "populate"
    /\ popn = 0
    /\ p = -1
    /\ t = 0
    /\ dist = 0
    /\ chg = 0
    /\ uniq = 0
    /\ c = 0
    /\ r = -1
    /\ neighbours = << >>
    /\ k = 0
    /\ dp = -1
    /\ before = << >>
    /\ exch = 0
    /\ probe = NoProbe

(***************************************************************************)
(* createPopulation: one cell of the double loop                           *)
(***************************************************************************)
PopulateCell ==
    /\ pc = "populate"
    /\ popn < width * width
    /\ \E sample \in PSamples, clr \in CodeSamples \cap Intn(CODEMAX) :
          LET made == IF isPopulated(sample)
                      THEN stored(createCell(clr))
                      ELSE stored(createCell(\h000000))
          IN  /\ popn >= PopPeriod => made = cells[popn - PopPeriod]
              /\ cells' = [cells EXCEPT ![popn] = made]
              /\ p' = sample
    /\ popn' = popn + 1
    /\ UNCHANGED << config, series, endSim, events, pc, t, dist, chg, uniq, c,
                    r, neighbours, k, dp, before, exch, probe >>

\* createPopulation returns: the three series get their headers
PopulationDone ==
    /\ pc = "populate"
    /\ popn = width * width
    /\ fdistances' = << "distance" >>
    /\ changes' = << "change" >>
    /\ uniques' = << "unique" >>
    /\ p' = -1
    /\ pc' = "loop"
    /\ UNCHANGED << config, cells, endSim, events, popn, t, dist, chg, uniq,
                    c, r, neighbours, k, dp, before, exch, probe >>

(***************************************************************************)
(* main: the simulation loop                                               *)
(***************************************************************************)
\* the loop test passes; dist, chg, uniq are declared; the select takes a
\* queued event if there is one, else its default case
TickStart ==
    /\ pc = "loop"
    /\ ~endSim /\ t < numTicks
    /\ dist' = 0 /\ chg' = 0 /\ uniq' = 0
    /\ IF events # << >>
       THEN /\ events' = Tail(events)
            /\ endSim' = IF isCtrlQ(Head(events)) THEN TRUE ELSE endSim
       ELSE UNCHANGED << events, endSim >>
    /\ c' = 0
    /\ pc' = "interact"
    /\ UNCHANGED << config, cells, series, popn, p, t, r, neighbours, k, dp,
                    before, exch, probe >>

\* the loop test fails: the loop is left
LoopExit ==
    /\ pc = "loop"
    /\ ~(~endSim /\ t < numTicks)
    /\ pc' = "done"
    /\ UNCHANGED << config, cells, series, endSim, events, popn, p, t, dist,
                    chg, uniq, c, r, neighbours, k, dp, before, exch, probe >>

\* randomly choose one cell; find all its neighbours if it is populated
PickCell ==
    /\ pc = "interact"
    /\ moreInteractions
    /\ \E rr \in Intn(width * width) :
          /\ r' = rr
          /\ IF code(rr) # \h0000
             THEN /\ neighbours' = findNeighboursIndex(rr, width)
                  /\ k' = 1
                  /\ pc' = "pair"
             ELSE /\ neighbours' = << >>
                  /\ k' = 0
                  /\ pc' = "metrics"
    /\ before' = cells
    /\ UNCHANGED << config, cells, series, endSim, events, popn, p, t, dist,
                    chg, uniq, c, dp, exch, probe >>

\* one round of the range loop over the neighbours of r
ProcessPair ==
    /\ pc = "pair"
    /\ k <= Len(neighbours)
    /\ LET neighbour == neighbours[k]
           last == (k = Len(neighbours))
       IN  IF neighbour \notin Indices
           THEN \* cells[neighbour]: index out of range
                /\ pc' = "panic"
                /\ UNCHANGED << cells, chg, k, dp, exch >>
           ELSE /\ k' = k + 1
                /\ pc' = IF last THEN "metrics" ELSE "pair"
                /\ IF neighbourPopulated(neighbour)
                   THEN LET d == diff(r, neighbour)
                        IN  \E draw \in DpSamples :
                              /\ dp' = draw
                              /\ IF happens(draw, d) /\ d # 0
                                 THEN /\ exch < MaxExch
                                      /\ \E i \in Intn(FEATURES), dir \in Intn(1) :
                                            \E rp \in { exchanged(r, neighbour, i, dir) } :
                                                \E cell \in { setRGB(rp) } :
                                                    cells' = [cells EXCEPT
                                                        ![neighbour] = stored(cell)]
                                      /\ chg' = chg + 1
                                      /\ exch' = exch + 1
                                 ELSE UNCHANGED << cells, chg, exch >>
                   ELSE /\ dp' = -1
                        /\ UNCHANGED << cells, chg, exch >>
    /\ UNCHANGED << config, series, endSim, events, popn, p, t, dist, uniq, c,
                    r, neighbours, before, probe >>

\* calculate the average distance between all features and the number of
\* unique cultures; the interaction is over
Metrics ==
    /\ pc = "metrics"
    /\ IF NeighboursInGrid
       THEN /\ dist' = featureDistAvg
            /\ uniq' = similarCount
            /\ c' = c + 1
            /\ pc' = "interact"
            /\ r' = -1
            /\ neighbours' = << >>
            /\ k' = 0
            /\ dp' = -1
            /\ before' = << >>
       ELSE \* featureDistAvg: cells[neighbour], index out of range
            /\ pc' = "panic"
            /\ UNCHANGED << dist, uniq, c, r, neighbours, k, dp, before >>
    /\ UNCHANGED << config, cells, series, endSim, events, popn, p, t, chg,
                    exch, probe >>

\* the interactions of the tick are done: the tick is recorded
RecordTick ==
    /\ pc = "interact"
    /\ ~moreInteractions
    /\ fdistances' = Append(fdistances, Itoa(dist))
    /\ changes' = Append(changes, Itoa(chg \div width))
    /\ uniques' = Append(uniques, Itoa(uniq))
    /\ t' = t + 1
    /\ pc' = "loop"
    /\ UNCHANGED << config, cells, endSim, events, popn, p, dist, chg, uniq,
                    c, r, neighbours, k, dp, before, exch, probe >>

Next ==
    \/ PopulateCell
    \/ PopulationDone
    \/ TickStart
    \/ LoopExit
    \/ PickCell
    \/ ProcessPair
    \/ Metrics
    \/ RecordTick

Spec == Init /\ [][Next]_vars

(***************************************************************************)
(* main with its key listener.  Spec above is the run in which no key is   *)
(* pressed; here the goroutine started before createPopulation delivers    *)
(* key events at any moment of the run.                                    *)
(***************************************************************************)
\* the goroutine: events <- termbox.PollEvent()
PollEvent ==
    /\ pc \notin {"done", "panic", "probe"}
    /\ Len(events) < EVENTSCAP
    /\ Len(events) < MaxKeys
    /\ \E key \in KeySamples : events' = Append(events, key)
    /\ UNCHANGED << config, cells, series, endSim, pc, popn, p, t, dist, chg,
                    uniq, c, r, neighbours, k, dp, before, exch, probe >>

InitKeys ==
    /\ Init
    /\ width <= MaxKeyW

NextKeys ==
    \/ Next
    \/ PollEvent

SpecKeys == InitKeys /\ [][NextKeys]_vars

(***************************************************************************)
(* The original variant of main (src/main.go, first file of the listing):  *)
(* no tick budget (for !endSim), no coverage, the side of the grid is the  *)
(* package variable WIDTH.  t counts the ticks recorded so far, coverage   *)
(* and numTicks are not used.                                              *)
(***************************************************************************)
\* average feature distance for the whole grid, original variant
featureDistAvgOriginal ==
    LET ofCell(a) ==
            LET nb == findNeighboursIndex(a, width)
                f == [j \in 0 .. Len(nb) - 1 |->
                        featureDistance(code(a), code(nb[j + 1]))]
            IN  SumTo(f, Len(nb))
        total == SumTo([a \in Indices |-> ofCell(a)], width * width)
    IN  total \div width

InitOriginal ==
    /\ width \in 2 .. MaxOrigW
    /\ coverage = CovScale
    /\ interactions \in 0 .. MaxN
    /\ numTicks = 0
    /\ cells = [a \in 0 .. (width * width - 1) |-> ZeroCell]
    /\ fdistances = << >>
    /\ changes = << >>
    /\ uniques = << >>
    /\ endSim = FALSE
    /\ events = << >>
    /\ pc = "populate"
    /\ popn = 0
    /\ p = -1
    /\ t = 0
    /\ dist = 0
    /\ chg = 0
    /\ uniq = 0
    /\ c = 0
    /\ r = -1
    /\ neighbours = << >>
    /\ k = 0
    /\ dp = -1
    /\ before = << >>
    /\ exch = 0
    /\ probe = NoProbe

\* createPopulation, original variant: every cell gets rand.Intn(0xFFFFFF)
PopulateCellOriginal ==
    /\ pc = "populate"
    /\ popn < width * width
    /\ \E clr \in CodeSamplesOriginal \cap Intn(CODEMAX) :
          LET made == stored(createCell(clr))
          IN  /\ popn >= PopPeriod => made = cells[popn - PopPeriod]
              /\ cells' = [cells EXCEPT ![popn] = made]
    /\ popn' = popn + 1
    /\ UNCHANGED << config, series, endSim, events, pc, p, t, dist, chg, uniq,
                    c, r, neighbours, k, dp, before, exch, probe >>

\* for !endSim: the test passes; the select takes a queued event if there
\* is one, else its default case
TickStartOriginal ==
    /\ pc = "loop"
    /\ ~endSim
    /\ \/ t < MaxOrigTicks
       \/ \E j \in DOMAIN events : isCtrlQ(events[j])
    /\ dist' = 0 /\ chg' = 0 /\ uniq' = 0
    /\ IF events # << >>
       THEN /\ events' = Tail(events)
            /\ endSim' = IF isCtrlQ(Head(events)) THEN TRUE ELSE endSim
       ELSE UNCHANGED << events, endSim >>
    /\ c' = 0
    /\ pc' = "interact"
    /\ UNCHANGED << config, cells, series, popn, p, t, r, neighbours, k, dp,
                    before, exch, probe >>

\* for !endSim: the test fails
LoopExitOriginal ==
    /\ pc = "loop"
    /\ endSim
    /\ pc' = "done"
    /\ UNCHANGED << config, cells, series, endSim, events, popn, p, t, dist,
                    chg, uniq, c, r, neighbours, k, dp, before, exch, probe >>

\* r := rand.Intn(WIDTH * WIDTH); neighbours := findNeighboursIndex(r)
PickCellOriginal ==
    /\ pc = "interact"
    /\ moreInteractions
    /\ \E rr \in Intn(width * width) :
          /\ r' = rr
          /\ neighbours' = findNeighboursIndex(rr, width)
    /\ k' = 1
    /\ pc' = "pair"
    /\ before' = cells
    /\ UNCHANGED << config, cells, series, endSim, events, popn, p, t, dist,
                    chg, uniq, c, dp, exch, probe >>

\* one round of the range loop over the neighbours of r, original variant
ProcessPairOriginal ==
    /\ pc = "pair"
    /\ k <= Len(neighbours)
    /\ LET neighbour == neighbours[k]
           last == (k = Len(neighbours))
       IN  IF neighbour \notin Indices
           THEN /\ pc' = "panic"
                /\ UNCHANGED << cells, chg, k, dp, exch >>
           ELSE /\ k' = k + 1
                /\ pc' = IF last THEN "metrics" ELSE "pair"
                /\ LET d == diff(r, neighbour)
                   IN  \E draw \in DpSamples :
                         /\ dp' = draw
                         /\ IF happens(draw, d) /\ d # 0
                            THEN /\ exch < MaxOrigExch
                                 /\ \E i \in Intn(FEATURES), dir \in Intn(1) :
                                       \E rp \in { exchanged(r, neighbour, i, dir) } :
                                           \E cell \in { setRGB(rp) } :
                                               cells' = [cells EXCEPT
                                                   ![neighbour] = stored(cell)]
                                 /\ chg' = chg + 1
                                 /\ exch' = exch + 1
                            ELSE UNCHANGED << cells, chg, exch >>
    /\ UNCHANGED << config, series, endSim, events, popn, p, t, dist, uniq, c,
                    r, neighbours, before, probe >>

\* dist = featureDistAvg(); uniq = similarCount()
MetricsOriginal ==
    /\ pc = "metrics"
    /\ dist' = featureDistAvgOriginal
    /\ uniq' = similarCount
    /\ c' = c + 1
    /\ pc' = "interact"
    /\ r' = -1
    /\ neighbours' = << >>
    /\ k' = 0
    /\ dp' = -1
    /\ before' = << >>
    /\ UNCHANGED << config, cells, series, endSim, events, popn, p, t, chg,
                    exch, probe >>

\* the interactions of the tick are done: the tick is recorded
RecordTickOriginal ==
    /\ pc = "interact"
    /\ ~moreInteractions
    /\ fdistances' = Append(fdistances, Itoa(dist))
    /\ changes' = Append(changes, Itoa(chg \div width))
    /\ uniques' = Append(uniques, Itoa(uniq))
    /\ t' = t + 1
    /\ pc' = "loop"
    /\ UNCHANGED << config, cells, endSim, events, popn, p, dist, chg, uniq,
                    c, r, neighbours, k, dp, before, exch, probe >>

\* the steps of main
MainOriginal ==
    \/ PopulateCellOriginal
    \/ PopulationDone
    \/ TickStartOriginal
    \/ LoopExitOriginal
    \/ PickCellOriginal
    \/ ProcessPairOriginal
    \/ MetricsOriginal
    \/ RecordTickOriginal

NextOriginal ==
    \/ MainOriginal
    \/ PollEvent

\* the Go scheduler runs main and the key listener whenever they can run
SpecOriginal ==
    /\ InitOriginal
    /\ [][NextOriginal]_vars
    /\ WF_vars(MainOriginal)
    /\ WF_vars(PollEvent)

(***************************************************************************)
(* The pure functions, called on their own.  The program is not running:   *)
(* its variables rest, and probe holds the call.                           *)
(***************************************************************************)
Resting ==
    /\ width = 1
    /\ coverage = 0
    /\ interactions = 0
    /\ numTicks = 0
    /\ cells = [a \in 0 .. 0 |-> ZeroCell]
    /\ fdistances = << >>
    /\ changes = << >>
    /\ uniques = << >>
    /\ endSim = FALSE
    /\ events = << >>
    /\ pc = "probe"
    /\ popn = 0
    /\ p = -1
    /\ t = 0
    /\ dist = 0
    /\ chg = 0
    /\ uniq = 0
    /\ c = 0
    /\ r = -1
    /\ neighbours = << >>
    /\ k = 0
    /\ dp = -1
    /\ before = << >>
    /\ exch = 0

program == << width, coverage, interactions, numTicks, cells, fdistances,
              changes, uniques, endSim, events, pc, popn, p, t, dist, chg,
              uniq, c, r, neighbours, k, dp, before, exch >>

\* culture codes the codec is called on
CodecSamples ==
    {\h000000, \h000001, \h00000F, \h123456, \h800000, \hABCDEF,
     \h0F0F0F, \hF0F0F0, \hEFFFFC, \hFFFFFE, \hFFFFFF}

\* replace(n, replacement, pos) is about to be called
InitCodec ==
    /\ Resting
    /\ \E n \in CodecSamples, replacement \in 0 .. 15, pos \in 0 .. FEATURES - 1 :
          probe = [fn |-> "replace", n |-> n, replacement |-> replacement,
                   pos |-> pos]

\* rp := replace(n, replacement, pos)
CallReplace ==
    /\ probe.fn = "replace"
    /\ probe' = [fn |-> "replaced", n |-> probe.n,
                 replacement |-> probe.replacement, pos |-> probe.pos,
                 rp |-> replace(probe.n, probe.replacement, probe.pos)]
    /\ UNCHANGED program

\* extract(rp, at), for any position at
CallExtract ==
    /\ probe.fn = "replaced"
    /\ \E at \in 0 .. FEATURES - 1 :
          probe' = [fn |-> "extracted", n |-> probe.n,
                    replacement |-> probe.replacement, pos |-> probe.pos,
                    rp |-> probe.rp, at |-> at,
                    trait |-> extract(probe.rp, at)]
    /\ UNCHANGED program

NextCodec == CallReplace \/ CallExtract

SpecCodec == InitCodec /\ [][NextCodec]_vars

\* findNeighboursIndex(n) is about to be called on a grid of side W
InitNb ==
    /\ Resting
    /\ \E W \in 1 .. MaxNbW :
          \E n \in 0 .. (W * W - 1) :
              probe = [fn |-> "findNeighboursIndex", W |-> W, n |-> n]

\* nb := findNeighboursIndex(n)
CallNeighbours ==
    /\ probe.fn = "findNeighboursIndex"
    /\ probe' = [fn |-> "found", W |-> probe.W, n |-> probe.n,
                 nb |-> findNeighboursIndex(probe.n, probe.W)]
    /\ UNCHANGED program

NextNb == CallNeighbours

SpecNb == InitNb /\ [][NextNb]_vars

\* featureDistance(n1, n2) is about to be called
InitFd ==
    /\ Resting
    /\ \E n1 \in CodecSamples, n2 \in CodecSamples :
          probe = [fn |-> "featureDistance", n1 |-> n1, n2 |-> n2]

\* fd := featureDistance(n1, n2)
CallFeatureDistance ==
    /\ probe.fn = "featureDistance"
    /\ probe' = [fn |-> "measured", n1 |-> probe.n1, n2 |-> probe.n2,
                 fd |-> featureDistance(probe.n1, probe.n2)]
    /\ UNCHANGED program

NextFd == CallFeatureDistance

SpecFd == InitFd /\ [][NextFd]_vars

(***************************************************************************)
(* Vocabulary of the properties, by arithmetic on the codes and by         *)
(* coordinates on the grid.                                                *)
(***************************************************************************)
\* the trait at position q of a culture code: its q-th base-16 digit
NibbleOf(n, q) == (n \div (16 ^ q)) % 16

\* the code n with the trait at position q set to v
SetNibble(n, q, v) == n - NibbleOf(n, q) * (16 ^ q) + v * (16 ^ q)

AbsOf(x) == IF x < 0 THEN 0 - x ELSE x

\* the cultural distance of two codes: positions 0..4 are summed
Distance(n1, n2) ==
    AbsOf(NibbleOf(n1, 0) - NibbleOf(n2, 0))
        + AbsOf(NibbleOf(n1, 1) - NibbleOf(n2, 1))
        + AbsOf(NibbleOf(n1, 2) - NibbleOf(n2, 2))
        + AbsOf(NibbleOf(n1, 3) - NibbleOf(n2, 3))
        + AbsOf(NibbleOf(n1, 4) - NibbleOf(n2, 4))

\* the cells of the Moore neighbourhood of n that lie in a grid of side W
Moore(n, W) ==
    LET row == n \div W
        col == n % W
    IN  { rr * W + cc : rr \in { x \in (row - 1) .. (row + 1) : x \in 0 .. W - 1 },
                        cc \in { y \in (col - 1) .. (col + 1) : y \in 0 .. W - 1 } }
            \ {n}

IsCorner(n, W) == (n \div W) \in {0, W - 1} /\ (n % W) \in {0, W - 1}
IsBorder(n, W) == (n \div W) \in {0, W - 1} \/ (n % W) \in {0, W - 1}

RangeOf(seq) == { seq[j] : j \in DOMAIN seq }

\* the cells whose code differs from what it was when r was drawn
Changed == { a \in Indices : cells[a] # before[a] }

\* an interaction is under way (r is drawn, its metrics are not yet taken)
InInteraction == before # << >>

\* main is inside a tick: its select is done, its entry is not yet appended
InTick == pc \in {"interact", "pair", "metrics"}

RECURSIVE SumOver(_, _)
\* the sum of f[x] over the elements x of the finite set S
SumOver(S, f) ==
    IF S = {} THEN 0
    ELSE LET x == CHOOSE y \in S : TRUE
         IN  f[x] + SumOver(S \ {x}, f)

\* the ordered adjacent pairs of the grid whose two cells are populated
PopulatedPairs ==
    { pr \in Indices \X Indices :
        /\ pr[2] \in Moore(pr[1], width)
        /\ cells[pr[1]] # 0
        /\ cells[pr[2]] # 0 }

\* the traits the cells of grid g hold at position q
TraitsAt(g, q) == { NibbleOf(g[a], q) : a \in DOMAIN g }

\* a Ctrl-Q key event waits in the events channel
CtrlQQueued == \E j \in DOMAIN events : events[j] = "CtrlQ"

(***************************************************************************)
(* C1. replace(code, v, pos) returns the code whose nibble pos is v and    *)
(* whose other five nibbles are those of code, and extract reads that      *)
(* nibble back: extract(replace(code, v, pos), pos) = v.                   *)
(***************************************************************************)
C1_ReplaceSetsOneNibble ==
    /\ probe.fn \in {"replaced", "extracted"} =>
          /\ probe.rp \in 0 .. CODEMAX
          /\ \A q \in 0 .. 5 :
                NibbleOf(probe.rp, q) =
                    IF q = probe.pos THEN probe.replacement
                    ELSE NibbleOf(probe.n, q)
    /\ probe.fn = "extracted" =>
          probe.trait = IF probe.at = probe.pos THEN probe.replacement
                        ELSE NibbleOf(probe.n, probe.at)

C1_Witness ==
    /\ probe.fn = "extracted"
    /\ probe.at = probe.pos
    /\ NibbleOf(probe.n, probe.pos) # probe.replacement
    /\ probe.trait = probe.replacement

(***************************************************************************)
(* C2. For a grid of side W >= 3, findNeighboursIndex(idx) returns exactly *)
(* the in-grid cells of the Moore neighbourhood of idx, without duplicates *)
(* and without idx: 3 cells for a corner, 5 for another border cell, 8 for *)
(* an interior cell; and the relation is symmetric.                        *)
(***************************************************************************)
C2_MooreNeighbourhood ==
    (probe.fn = "found" /\ probe.W >= 3) =>
        LET nb == probe.nb
            W == probe.W
            n == probe.n
        IN  /\ RangeOf(nb) = Moore(n, W)
            /\ Len(nb) = Cardinality(RangeOf(nb))
            /\ n \notin RangeOf(nb)
            /\ RangeOf(nb) \subseteq 0 .. (W * W - 1)
            /\ Len(nb) = IF IsCorner(n, W) THEN 3
                         ELSE IF IsBorder(n, W) THEN 5 ELSE 8
            /\ \A m \in RangeOf(nb) : n \in RangeOf(findNeighboursIndex(m, W))

C2_Witness ==
    /\ probe.fn = "found"
    /\ probe.W >= 3
    /\ ~IsBorder(probe.n, probe.W)
    /\ Len(probe.nb) = 8

(***************************************************************************)
(* C3. No out-of-range access is reachable: whatever the side W > 0 of the *)
(* grid, the chosen cell r and every index findNeighboursIndex returns     *)
(* during an interaction or the metrics computation are cells of the grid. *)
(***************************************************************************)
C3_NoOutOfRangeAccess ==
    /\ pc # "panic"
    /\ r \in Indices \cup {-1}
    /\ \A j \in DOMAIN neighbours : neighbours[j] \in Indices

(***************************************************************************)
(* C4. For the chosen populated cell r and a populated neighbour m, with d *)
(* their distance and dp the draw: a trait is copied and the exchange      *)
(* counter of the tick goes up by one if and only if dp < 1 - d/96 and     *)
(* d # 0; otherwise neither the grid nor the counter changes.              *)
(***************************************************************************)
C4_ExchangeIffDrawBelow ==
    [][ (/\ pc = "pair"
         /\ neighbours[k] \in Indices
         /\ cells[neighbours[k]] # 0)
        => LET m == neighbours[k]
               d == Distance(cells[r], cells[m])
           IN  IF dp' + d < 96 /\ d # 0
               THEN /\ chg' = chg + 1
                    /\ \E i \in 0 .. 5 :
                          \/ cells' = [cells EXCEPT
                                 ![m] = SetNibble(cells[m], i, NibbleOf(cells[r], i))]
                          \/ cells' = [cells EXCEPT
                                 ![r] = SetNibble(cells[r], i, NibbleOf(cells[m], i))]
               ELSE /\ chg' = chg
                    /\ cells' = cells ]_vars

C4_Witness ==
    /\ pc \in {"pair", "metrics"}
    /\ InInteraction
    /\ dp >= 0
    /\ chg >= 1
    /\ Changed # {}

(***************************************************************************)
(* C5. When r and its neighbour m exchange the trait at position i, the    *)
(* direction is a two-way choice: the outcome in which m takes r's trait   *)
(* (r unchanged) and the outcome in which r takes m's trait (m unchanged)  *)
(* are both possible.                                                      *)
(***************************************************************************)
C5_BothDirectionsPossible ==
    (/\ pc = "pair"
     /\ neighbours[k] \in Indices
     /\ cells[neighbours[k]] # 0
     /\ Distance(cells[r], cells[neighbours[k]]) # 0
     /\ exch < MaxExch)
    => \A i \in 0 .. 5 :
          /\ ENABLED (/\ ProcessPair
                      /\ cells' = [cells EXCEPT ![neighbours[k]] =
                            SetNibble(cells[neighbours[k]], i, NibbleOf(cells[r], i))])
          /\ ENABLED (/\ ProcessPair
                      /\ cells' = [cells EXCEPT ![r] =
                            SetNibble(cells[r], i, NibbleOf(cells[neighbours[k]], i))])

(***************************************************************************)
(* C6. Each interaction (one draw of r and the processing of r's           *)
(* neighbours) changes the culture code of at most one cell.               *)
(***************************************************************************)
C6_AtMostOneCellChanges ==
    InInteraction => Cardinality(Changed) <= 1

(***************************************************************************)
(* C6, amended. Each interaction changes the code of at most one cell per  *)
(* populated neighbour of r: the cells it changes are populated neighbours *)
(* of r (at most 8 of them), and r itself is never one of them.            *)
(***************************************************************************)
C6_OnlyPopulatedNeighboursChange ==
    InInteraction =>
        /\ Changed \subseteq { m \in Moore(r, width) : before[m] # 0 }
        /\ r \notin Changed
        /\ Cardinality(Changed) <= 8

C6_Witness ==
    /\ InInteraction
    /\ pc = "metrics"
    /\ Cardinality(Changed) >= 2

(***************************************************************************)
(* C7. With coverage 0 every cell is the sentinel 0 and stays so: every    *)
(* reachable grid is the all-sentinel grid, and the exchange counter of    *)
(* every tick is 0.                                                        *)
(***************************************************************************)
C7_ZeroCoverageIsInert ==
    coverage = 0 =>
        /\ \A a \in Indices : cells[a] = 0
        /\ chg = 0
        /\ exch = 0
        /\ \A j \in 2 .. Len(changes) : changes[j] = << "0" >>

C7_Witness ==
    /\ coverage = 0
    /\ interactions >= 1
    /\ pc = "done"
    /\ Len(changes) = 3

(***************************************************************************)
(* C8. An interaction whose chosen cell is r leaves the code of every cell *)
(* outside {r} and the neighbours of r unchanged; so the distance of any   *)
(* two such cells is the same before and after the interaction.            *)
(***************************************************************************)
C8_OutsideNeighbourhoodUnchanged ==
    InInteraction =>
        LET outside == Indices \ ({r} \cup Moore(r, width))
        IN  /\ \A a \in outside : cells[a] = before[a]
            /\ \A a, b \in outside :
                  Distance(cells[a], cells[b]) = Distance(before[a], before[b])

C8_Witness ==
    /\ InInteraction
    /\ pc = "metrics"
    /\ Changed # {}
    /\ \E a \in Indices \ ({r} \cup Moore(r, width)) : cells[a] # 0

(***************************************************************************)
(* C9. In createPopulation, a cell whose sample is below the coverage gets *)
(* a nonzero culture code in [1, 0xFFFFFF]; the sentinel 0 is assigned     *)
(* only when the sample is not below the coverage.                         *)
(***************************************************************************)
C9_PopulatedCellsAreNonzero ==
    (pc = "populate" /\ popn > 0) =>
        /\ p < coverage => cells[popn - 1] \in 1 .. CODEMAX
        /\ cells[popn - 1] = 0 => p >= coverage

(***************************************************************************)
(* C10. In every reachable state every cell's culture code is an integer   *)
(* in [0, 0xFFFFFF]: six nibbles in [0,15], no bit above bit 23.           *)
(***************************************************************************)
C10_CodesAre24Bit ==
    \A a \in Indices :
        /\ cells[a] \in 0 .. CODEMAX
        /\ cells[a] \div (2 ^ 24) = 0

C10_Witness ==
    /\ pc = "done"
    /\ exch >= 1
    /\ \E a \in Indices : cells[a] \notin CodeSamples

(***************************************************************************)
(* C11. The value 0 occurs as a code only as the unpopulated sentinel: in  *)
(* a grid in which every cell is populated (nonzero code), no step of an   *)
(* interaction gives a cell the code 0, so every cell is populated after   *)
(* any sequence of interactions as well.                                   *)
(***************************************************************************)
C11_ExchangeNeverMakesSentinel ==
    [][ (/\ pc \in {"loop", "interact", "pair", "metrics"}
         /\ \A a \in Indices : cells[a] # 0)
        => \A a \in Indices : cells'[a] # 0 ]_vars

(***************************************************************************)
(* C12. featureDistAvg accumulates featureDistance only over the ordered   *)
(* adjacent pairs (a, m) in which both a and its neighbour m are populated:*)
(* the distance main holds after an interaction is the one computed from   *)
(* that sum; a pair with a sentinel cell contributes nothing.              *)
(***************************************************************************)
C12_OnlyPopulatedPairsCounted ==
    (pc = "interact" /\ c > 0) =>
        LET total == SumOver(PopulatedPairs,
                        [pr \in Indices \X Indices |->
                            featureDistance(cells[pr[1]], cells[pr[2]])])
        IN  dist = ((total \div width) * coverage) \div CovScale

(***************************************************************************)
(* C13. For all codes n1, n2 in [0, 0xFFFFFF], featureDistance(n1, n2) is  *)
(* 6 minus the number of positions 0..5 at which the two codes hold the    *)
(* same trait; so featureDistance(n, n) = 0, and two codes that differ     *)
(* only in nibble 5 are at distance 1.                                     *)
(***************************************************************************)
C13_FeatureDistanceCountsSixPositions ==
    probe.fn = "measured" =>
        LET same == { q \in 0 .. 5 :
                        NibbleOf(probe.n1, q) = NibbleOf(probe.n2, q) }
        IN  /\ probe.fd = 6 - Cardinality(same)
            /\ probe.n1 = probe.n2 => probe.fd = 0
            /\ same = 0 .. 4 => probe.fd = 1

(***************************************************************************)
(* C14. For every grid, similarCount is in [1, W*W] whenever at least one  *)
(* cell is populated; it is 0 for an entirely unpopulated grid (all cells  *)
(* sentinel) and for no other grid.                                        *)
(***************************************************************************)
C14_UniqueCountZeroIffUnpopulated ==
    (pc = "interact" /\ c > 0) =>
        LET populated == \E a \in Indices : cells[a] # 0
        IN  /\ populated => uniq \in 1 .. (width * width)
            /\ uniq = 0 <=> ~populated

(***************************************************************************)
(* C14, amended. For every grid, similarCount is the number of distinct    *)
(* codes among the cells, the sentinel 0 counting as one of them: it is in *)
(* [1, W*W] for every grid, it is 1 for an entirely unpopulated grid, and  *)
(* it is never 0.                                                          *)
(***************************************************************************)
C14_UniqueCountAtLeastOne ==
    (pc = "interact" /\ c > 0) =>
        /\ uniq \in 1 .. (width * width)
        /\ uniq = Cardinality({ a \in Indices :
                                  \A b \in Indices : b < a => cells[b] # cells[a] })
        /\ (\A a \in Indices : cells[a] = 0) => uniq = 1

C14_Witness ==
    /\ pc = "interact"
    /\ c > 0
    /\ width >= 2
    /\ \A a \in Indices : cells[a] = 0
    /\ uniq = 1

(***************************************************************************)
(* C15. At the end of every tick exactly one entry is appended to each of  *)
(* the three series, so that after t ticks each holds its header and t     *)
(* entries, and the entry appended to the "change" series is the exchange  *)
(* count of that tick: the number of exchanges performed during the tick.  *)
(***************************************************************************)
C15_ChangeEntryIsExchangeCount ==
    /\ pc \notin {"populate", "probe"} =>
          /\ Len(fdistances) = t + 1
          /\ Len(changes) = t + 1
          /\ Len(uniques) = t + 1
    /\ (pc \in {"loop", "done"} /\ t > 0) =>
          changes[Len(changes)] = Itoa(chg)

(***************************************************************************)
(* C16. Cancellation is consulted only at tick boundaries: whatever keys   *)
(* the listener delivers and whenever it delivers them, the stop flag is   *)
(* set only by the select that opens a tick, a tick under way is never     *)
(* left for the end of the run, and a tick ends only after all n of its    *)
(* interactions, with its entry appended to each series.                   *)
(***************************************************************************)
C16_TickCompletesDespiteStop ==
    [][ /\ endSim' # endSim => (pc = "loop" /\ pc' = "interact")
        /\ InTick => pc' # "done"
        /\ (InTick /\ pc' = "loop") =>
              /\ c = interactions
              /\ Len(fdistances') = Len(fdistances) + 1
              /\ Len(changes') = Len(changes) + 1
              /\ Len(uniques') = Len(uniques) + 1 ]_vars

C16_Witness ==
    /\ pc = "loop"
    /\ endSim
    /\ events # << >>
    /\ interactions >= 1
    /\ c = interactions
    /\ t >= 1
    /\ Len(changes) = t + 1

(***************************************************************************)
(* C18. The run ends when the tick budget T is exhausted or a stop request *)
(* is observed: at most T ticks are executed, and once main has observed   *)
(* the stop request (endSim is set) no further interaction is performed    *)
(* and no further tick is recorded.                                        *)
(***************************************************************************)
C18_NothingAfterStopObserved ==
    /\ [](t <= numTicks)
    /\ [][ endSim =>
              /\ ~(pc = "interact" /\ pc' \in {"pair", "metrics"})
              /\ series' = series ]_vars

(***************************************************************************)
(* C17. For every tick and every n >= 0 (n = 0 included), the distance and *)
(* the unique count recorded for the tick are featureDistAvg and           *)
(* similarCount of the grid as it is at the end of the tick's interactions.*)
(***************************************************************************)
C17_RecordedMetricsAreOfFinalGrid ==
    (pc \in {"loop", "done"} /\ t > 0) =>
        /\ uniques[Len(uniques)] = Itoa(similarCount)
        /\ NeighboursInGrid =>
              fdistances[Len(fdistances)] = Itoa(featureDistAvg)

(***************************************************************************)
(* C19. Traits are only copied, never invented: for each trait position q  *)
(* in 0..5, no step of the simulation loop adds a value to the set of      *)
(* traits the cells of the grid hold at q (so that set stays within the    *)
(* one the grid had after createPopulation), and no step writes a cell     *)
(* that holds the sentinel 0.                                              *)
(***************************************************************************)
C19_TraitsOnlyCopied ==
    [][ (pc \in {"loop", "interact", "pair", "metrics"}) =>
          ( /\ \A q \in 0 .. 5 :
                  TraitsAt(cells', q) \subseteq TraitsAt(cells, q)
            /\ \A a \in Indices : (cells[a] = 0 => cells'[a] = 0) ) ]_vars

C19_Witness ==
    /\ pc = "metrics"
    /\ InInteraction
    /\ \E a \in Changed :
          \E q \in 0 .. 5 :
              /\ NibbleOf(cells[a], q) # NibbleOf(before[a], q)
              /\ NibbleOf(cells[a], q) = NibbleOf(cells[r], q)
    /\ \E m \in Moore(r, width) : before[m] = 0 /\ cells[m] = 0

(***************************************************************************)
(* C20. In the variant without a tick budget, once a Ctrl-Q key event is   *)
(* in the events channel the simulation loop eventually terminates, also   *)
(* when other key events were queued before it: the loop takes one queued  *)
(* event per tick without blocking, so main is never stuck while the stop  *)
(* request waits in the channel.                                           *)
(***************************************************************************)
C20_CtrlQEventuallyEndsRun == CtrlQQueued ~> (pc = "done")

C20_Witness ==
    /\ pc = "done"
    /\ endSim
    /\ t = 2
    /\ interactions >= 1
    /\ events # << >>

====
